---- MODULE Spec2Model ----
(***************************************************************************)
(* RightsGuard: the automation orchestration core.                         *)
(*                                                                         *)
(* Three parties are modelled:                                             *)
(*   - the dashboard (src/src/app/page.tsx) and the TauriAPI client        *)
(*     (src/unnamed/part_008), which issue start / stop / continue and     *)
(*     poll the status;                                                    *)
(*   - the backend controller behind the Tauri commands (automation.rs /   *)
(*     commands.rs are not part of the sources; the controller is taken    *)
(*     from spec.md sections 4.6, 5 and 6);                                *)
(*   - the generated Playwright script                                     *)
(*     (src/tests/temp_connect_script.spec.js) run under                   *)
(*     src/playwright.config.js.                                           *)
(***************************************************************************)
EXTENDS Integers, Sequences, FiniteSets, TLC

\* ---------------------------------------------------------------- bounds
MaxFiles == 2          \* longest idCardFiles list explored
MaxItems == 1          \* most upload-list items the page is let to show
MaxTasks == 1          \* tasks started in one behaviour
MaxPolls == 1          \* wait-loop iterations counted after a stop
Quantum == 150000      \* milliseconds the clock advances per Tick

MaxCheckCount == 17    \* largest connectionCheckCount followed
MaxGap == 5500         \* longest time between two checks that is measured
MaxOperatorActions == 2 \* clicks in the browser-connection panel
MaxCallers == 2       \* TauriAPI method calls in flight together
MaxStaged == 2        \* files the operator stages

\* ------------------------------------------------------ program constants
TestTimeout == 300000  \* playwright.config.js: timeout
MaxAttempts == 15      \* page.tsx: checkCount >= 15
debounceDelay == 500   \* page.tsx: const debounceDelay = 500
InitialCheckDelay == 1000  \* page.tsx: initialTimeout
ScheduleDelay == 1500  \* page.tsx: setTimeout(scheduleNextCheck, 1500)
FirstInterval == 2000  \* page.tsx: let currentInterval = 2000
CopyDelay == 2500      \* copyBrowserCommand: setTimeout(..., 2500)
RestartDelay == 3000   \* handleForceRestartChrome: setTimeout(..., 3000)
DebugPort == 9222      \* --remote-debugging-port
FirstShownDelay == 500 \* page.tsx: the first-shown check

\* ------------------------------------------------------------- variables
VARIABLES
    isTauri,            \* TauriAPI.isTauri
    profile,            \* the personal profile of the record store
    state,              \* AutomationStatus.state
    errorMessage,       \* AutomationStatus.errorMessage ("" when absent)
    cancelFlag,         \* cancellation requested for the current task
    taskId,             \* tasks started so far
    isSubmitting,       \* DashboardPage.isSubmitting
    pendingStart,       \* a start_automation invoke is in flight
    startResult,        \* what the last startAutomation call gave its caller
    automationStatus,   \* DashboardPage.automationStatus (last polled value)
    lastContinue,       \* "noop" once a continueAutomationAfterVerification call found no task waiting
    pc,                 \* position of the script process
    elapsed,            \* ms since the test began
    waitStart,          \* value of elapsed when the wait loop was entered
    scriptError,        \* error that reached the script's outer catch
    exitCode,           \* how the test process ended
    awaitResult,        \* how the verification wait ended
    browserConnected,   \* the script holds its CDP connection
    waitingFile,        \* waiting_for_verification.txt exists
    completedFile,      \* verification_completed.txt exists
    sinceStop,          \* Ticks seen since stop was requested
    pollsSinceStop,     \* wait-loop passes since a stop requested in the wait
    stoppedAt,          \* where the script stood when stop was requested
    idCardFiles,        \* const idCardFiles, each path by what is on disk
    validFiles,         \* let validFiles
    fileValidationErrors, \* fileValidationErrors.length
    i,                  \* index of the strategy loop (1-based)
    uploadSuccess,      \* let uploadSuccess
    attempts,           \* the attempts of the upload call under way
    uploadItems,        \* .el-upload-list__item elements on the page
    uploadResult,       \* how the ID-card upload block ended
    connectionMode,     \* DashboardPage.connectionMode
    connAttempts,       \* connection strategies the script has tried, in order
    browserStatus,      \* DashboardPage.browserStatus
    showBrowserConfig,  \* DashboardPage.showBrowserConfig
    connectionCheckCount, \* DashboardPage.connectionCheckCount
    isMonitoringConnection, \* DashboardPage.isMonitoringConnection
    refKind,            \* monitoringIntervalRef.current: "null", or the timer it names
    refDue,             \* ms until the timer monitoringIntervalRef names fires
    kicks,              \* pending setTimeout(scheduleNextCheck, 1500), by ms left
    debounceDue,        \* ms until the debounce timer fires (-1: none)
    debounceShould,     \* shouldMonitor as the debounce timer captured it
    firstShownDue,      \* ms until the first-shown check fires (-1: none)
    pendingChecks,      \* check_browser_connection_status calls not yet answered
    timeoutReport,      \* attempts the last timeout message reported (0: none)
    sinceCheck,         \* ms since the monitor last issued a check
    lastGap,            \* ms between the monitor's last two checks (0: none)
    operatorActions,    \* clicks made in the browser-connection panel
    gaveUpAt,           \* operatorActions when the monitor last timed out (-1: never)
    clientIsTauri,      \* TauriAPI.isTauri, the field (false until detected)
    isInitialized,      \* TauriAPI.isInitialized
    initPromise,        \* TauriAPI.initPromise: "null", "pending" or "resolved"
    detectRuns,         \* bodies of detectEnvironment begun
    calls,              \* the TauriAPI method calls followed, one per caller
    appFiles,           \* files under the app data directory: <<relativePath, bytes>>
    stageCount,         \* copyFileToAppData calls made (Date.now() moves with it)
    copiedFiles,        \* handleFileSelect's copiedFiles: [source, relativePath]
    resolvedFile,       \* the last getAppFilePath that returned, or NoResolve
    clipboard,          \* the launch command copyBrowserCommand last copied
    delayed,            \* pending setTimeout callbacks of the panel's buttons
    restarting,         \* handleForceRestartChrome awaits: "none", or the panel as it saw it
    lastDelayed         \* what the last delayed callback did: "none", "starting", "skipped"

envVars == <<isTauri, profile>>
ctlVars == <<state, errorMessage, cancelFlag, taskId>>
uiVars == <<isSubmitting, pendingStart, startResult, automationStatus,
           lastContinue>>
procVars == <<pc, elapsed, waitStart, scriptError, exitCode, awaitResult,
              browserConnected, waitingFile, completedFile, sinceStop,
              pollsSinceStop, stoppedAt>>
uploadVars == <<idCardFiles, validFiles, fileValidationErrors, i, uploadSuccess, attempts,
                uploadItems, uploadResult>>
connVars == <<connectionMode, connAttempts>>
monVars == <<browserStatus, showBrowserConfig, connectionCheckCount,
             isMonitoringConnection, refKind, refDue, kicks, debounceDue,
             debounceShould, firstShownDue, pendingChecks, timeoutReport,
             sinceCheck, lastGap, operatorActions, gaveUpAt>>
clientVars == <<clientIsTauri, isInitialized, initPromise, detectRuns, calls>>
stagingVars == <<appFiles, stageCount, copiedFiles, resolvedFile>>
panelVars == <<clipboard, delayed, restarting, lastDelayed>>
libVars == <<clientVars, stagingVars, panelVars>>
taskVars == <<ctlVars, uiVars, procVars, uploadVars, connVars>>
vars == <<envVars, taskVars, monVars, libVars>>

\* ------------------------------------------------------------ data model
States == {"Idle", "Launching", "Connecting", "FillingForm",
           "AwaitingVerification", "Resuming", "Uploading",
           "AwaitingFinalConfirmation", "Completed", "Failed", "Cancelled"}

Terminal == {"Completed", "Failed", "Cancelled"}

\* A started task that has not reached a terminal state.
Active(s) == s \notin (Terminal \cup {"Idle"})

\* What a path of idCardFiles is on disk when the script validates it:
\*   ok         exists, size > 0
\*   empty      exists, size = 0
\*   missing    does not exist, under any alternative spelling either
\*   alt        does not exist as written, exists under an alternative path
\*   unreadable existsSync is true and statSync throws
FileKinds == {"ok", "empty", "missing", "alt", "unreadable"}

\* The record store as the start command finds it: no profile, a profile
\* with no staged ID-card file, a profile with its files.
Profiles == {"none", "noIdCards", "complete"}

RECURSIVE SeqsUpTo(_, _)
SeqsUpTo(S, n) ==
    IF n = 0 THEN {<<>>}
    ELSE LET shorter == SeqsUpTo(S, n - 1)
         IN shorter \cup {Append(s, x) : s \in {t \in shorter : Len(t) = n - 1}, x \in S}

Min(a, b) == IF a < b THEN a ELSE b

\* The lists of up to MaxFiles paths the script is generated with, each path
\* by what it is on disk. The validation treats every path alike, whatever
\* its place in the list, so one order stands for all of them.
KindRank(kind) ==
    CASE kind = "ok" -> 1
      [] kind = "empty" -> 2
      [] kind = "missing" -> 3
      [] kind = "alt" -> 4
      [] kind = "unreadable" -> 5

IdCardLists ==
    {files \in SeqsUpTo(FileKinds, MaxFiles) \ {<<>>} :
        \A k \in 1..(Len(files) - 1) : KindRank(files[k]) <= KindRank(files[k + 1])}

\* The script has a process that has not ended.
Running == pc \notin {"none", "exited"}

\* ------------------------------------------------- the ID-card upload block
\* const selectorStrategies = [...], in the order the loop walks it.
selectorStrategies ==
    <<"element_ui_api", "hidden_input", "visible_input", "chooser", "fallback">>

\* validFiles after the validation loop: a file that exists is pushed whatever
\* its size, a file found under an alternative path is pushed as that path, a
\* missing file and one whose stat throws are left out.
ValidatedFiles(files) ==
    SelectSeq(files, LAMBDA f : f \in {"ok", "empty", "alt"})

\* fileValidationErrors.length after the validation loop.
ValidationErrors(files) ==
    Len(SelectSeq(files, LAMBDA f : f \in {"empty", "missing", "alt", "unreadable"}))

\* What the page does when one strategy is tried:
\*   present   the strategy's element exists (count() > 0) / is visible
\*   throws    the call that sets the files (or waits for the chooser) throws
\*   accepted  files the hidden input reports in el.files, one by one
\*   added     items the widget adds to its upload list within the settle wait
Responses(n) ==
    [present : BOOLEAN, throws : BOOLEAN, accepted : 0..n, added : 0..MaxItems]

\* Whether the strategy got files onto an input of the page.
FilesSet(type, r) ==
    CASE type = "element_ui_api" -> FALSE
      [] type = "hidden_input"   -> r.present /\ ~r.throws /\ r.accepted > 0
      [] OTHER                   -> r.present /\ ~r.throws

\* Upload-list items on the page after the attempt.
ItemsAfter(type, r, items) ==
    IF FilesSet(type, r) THEN Min(MaxItems, items + r.added) ELSE items

\* Whether the attempt got as far as its settle wait and item count.
Reached(type, r) ==
    CASE type = "element_ui_api" -> FALSE
      [] type = "fallback"       -> r.present
      [] OTHER                   -> r.present /\ ~r.throws

\* totalUploadItems / uploadItems as the attempt measured it.
Evidence(type, r, items) ==
    IF Reached(type, r) THEN ItemsAfter(type, r, items) ELSE 0

\* The condition under which a strategy sets uploadSuccess = true.
SuccessCriterion(type, totalUploadItems, successfulUploads) ==
    CASE type = "element_ui_api" -> FALSE
      [] type = "hidden_input"   -> totalUploadItems > 0 \/ successfulUploads > 0
      [] OTHER                   -> totalUploadItems > 0

StrategySucceeds(type, r, items) ==
    /\ Reached(type, r)
    /\ SuccessCriterion(type, Evidence(type, r, items),
                        IF type = "hidden_input" THEN r.accepted ELSE 0)

\* A loop that goes on after a success: neither the break nor the
\* !uploadSuccess test.
LoopContinuesPastSuccess(idx, success) ==
    idx <= Len(selectorStrategies)

\* for (let i = 0; i < selectorStrategies.length && !uploadSuccess; i++)
LoopContinues(idx, success) ==
    idx <= Len(selectorStrategies) /\ ~success

\* ------------------------------------------------------------ TauriAPI client
\* A client that logs the backend's error and returns normally.
startAutomationSwallows(tauri, backendResult) == "ok"

\* TauriAPI.startAutomation: the web mock returns at once; under Tauri the
\* backend's error is logged and thrown on to the caller.
startAutomation(tauri, backendResult) ==
    IF ~tauri THEN "ok" ELSE backendResult

NoStatus == [known |-> FALSE, isRunning |-> FALSE, verifying |-> FALSE]

\* A client that names the verification step for every running task.
getAutomationStatusVerifying(tauri, invokeOk, st) ==
    [known |-> TRUE, isRunning |-> Active(st), verifying |-> Active(st)]

\* TauriAPI.getAutomationStatus: the web mock, the backend's value, or, when
\* the invoke throws, { isRunning: false, error }.
getAutomationStatus(tauri, invokeOk, st) ==
    IF ~tauri THEN [known |-> TRUE, isRunning |-> FALSE, verifying |-> FALSE]
    ELSE IF invokeOk
         THEN [known |-> TRUE, isRunning |-> Active(st),
               verifying |-> (st = "AwaitingVerification")]
         ELSE [known |-> TRUE, isRunning |-> FALSE, verifying |-> FALSE]

\* ------------------------------------------------------- backend controller
\* start(): what the command answers, in the order the checks are made.
StartOutcome ==
    IF Active(state) THEN "TaskAlreadyRunning"
    ELSE IF profile = "none" THEN "ProfileMissing"
    ELSE IF profile = "noIdCards" THEN "IncompleteTaskData"
    ELSE "ok"

\* The state a step of the background context reports: a task that has
\* reached a terminal state is not moved again.
Track(st) == IF Active(state) THEN st ELSE state

\* start(): a task is created, its status moves to Launching and its
\* sequence is handed to a fresh background context.
start_automation ==
    /\ state' = "Launching"
    /\ errorMessage' = ""
    /\ cancelFlag' = FALSE
    /\ taskId' = taskId + 1
    /\ pc' = "launch"
    /\ elapsed' = 0
    /\ waitStart' = 0
    /\ scriptError' = ""
    /\ exitCode' = "none"
    /\ awaitResult' = "none"
    /\ sinceStop' = 0
    /\ pollsSinceStop' = 0
    /\ stoppedAt' = "none"
    /\ idCardFiles' = <<>>
    /\ validFiles' = <<>>
    /\ fileValidationErrors' = 0
    /\ i' = 1
    /\ uploadSuccess' = FALSE
    /\ attempts' = <<>>
    /\ uploadItems' = 0
    /\ uploadResult' = "none"
    /\ connAttempts' = <<>>
    /\ UNCHANGED <<browserConnected, waitingFile, completedFile, connectionMode>>

\* stop(): from a non-terminal state the task is forced to Cancelled and the
\* cancellation flag, which the blocking points are to check, is raised; a
\* no-op when no task is active.
stop_automation ==
    IF Active(state)
    THEN /\ state' = "Cancelled"
         /\ cancelFlag' = TRUE
         /\ sinceStop' = 0
         /\ pollsSinceStop' = 0
         /\ stoppedAt' = pc
    ELSE UNCHANGED <<state, cancelFlag, sinceStop, pollsSinceStop, stoppedAt>>

\* continueAfterVerification(): sets the signal; a no-op if no task waits.
continue_automation_after_verification ==
    completedFile' = (IF state = "AwaitingVerification" THEN TRUE ELSE completedFile)

\* ------------------------------------------- TauriAPI: calls in flight
Callers == 1..MaxCallers

\* A caller that has not called yet.
IdleCall == [method |-> "none", pc |-> "idle", sawTauri |-> FALSE,
             sawInitialized |-> FALSE, invoke |-> "none", outcome |-> "none"]

\* How a call ends, by the try/catch of its method: the mock branch and a
\* successful invoke return; a failed invoke is caught, and the catch either
\* returns a value of its own or throws the error on.
checkBrowserConnectionStatusSettles(tauri, invokeOk) == "returned"

\* A client whose catch throws the error on, as stopAutomation's does.
getAutomationStatusRethrows(tauri, invokeOk) ==
    IF tauri /\ ~invokeOk THEN "thrown" ELSE "returned"

\* catch (error) { return { isRunning: false, error: ... } }
getAutomationStatusSettles(tauri, invokeOk) == "returned"

\* catch (error) { console.error(...); throw error; }
stopAutomationSettles(tauri, invokeOk) ==
    IF tauri /\ ~invokeOk THEN "thrown" ELSE "returned"

Settles(method, tauri, invokeOk) ==
    CASE method = "getAutomationStatus" -> getAutomationStatusSettles(tauri, invokeOk)
      [] method = "stopAutomation" -> stopAutomationSettles(tauri, invokeOk)
      [] OTHER -> checkBrowserConnectionStatusSettles(tauri, invokeOk)

\* An ensureInitialized that begins a detection on every call.
ensureInitializedUnguarded ==
    /\ initPromise' = "pending"
    /\ detectRuns' = detectRuns + 1

\* ensureInitialized up to its await: a promise that exists is handed back;
\* else detectEnvironment is called, which runs to its first await, and its
\* promise is stored.
ensureInitialized ==
    IF initPromise # "null"
    THEN UNCHANGED <<initPromise, detectRuns>>
    ELSE /\ initPromise' = "pending"
         /\ detectRuns' = detectRuns + 1

\* checkBrowserConnectionStatus is called: await this.ensureInitialized().
callCheckBrowserConnectionStatus ==
    \E c \in Callers :
        /\ calls[c].pc = "idle"
        /\ ensureInitialized
        /\ calls' = [calls EXCEPT ![c] = [@ EXCEPT !.method = "checkBrowserConnectionStatus",
                                                   !.pc = "awaitInit"]]
        /\ UNCHANGED <<clientIsTauri, isInitialized>>
        /\ UNCHANGED <<envVars, taskVars, monVars, stagingVars, panelVars>>

\* getAutomationStatus or stopAutomation is called: this.isTauri is read at
\* once, with no ensureInitialized before it.
callWithoutInit ==
    \E c \in Callers, m \in {"getAutomationStatus", "stopAutomation"} :
        /\ calls[c].pc = "idle"
        /\ calls' = [calls EXCEPT ![c] = [@ EXCEPT !.method = m,
                                                   !.pc = "invoke",
                                                   !.sawTauri = clientIsTauri,
                                                   !.sawInitialized = isInitialized]]
        /\ UNCHANGED <<clientIsTauri, isInitialized, initPromise, detectRuns>>
        /\ UNCHANGED <<envVars, taskVars, monVars, stagingVars, panelVars>>

\* detectEnvironment after its await of the import: the checks are combined,
\* isTauri and isInitialized are set and the promise resolves.
detectEnvironment ==
    /\ initPromise = "pending"
    /\ clientIsTauri' = (IF isInitialized THEN clientIsTauri ELSE isTauri)
    /\ isInitialized' = TRUE
    /\ initPromise' = "resolved"
    /\ UNCHANGED <<detectRuns, calls>>
    /\ UNCHANGED <<envVars, taskVars, monVars, stagingVars, panelVars>>

\* A caller's await of ensureInitialized ends and it reads this.isTauri.
resumeAfterInit ==
    \E c \in Callers :
        /\ calls[c].pc = "awaitInit"
        /\ initPromise = "resolved"
        /\ calls' = [calls EXCEPT ![c] = [@ EXCEPT !.pc = "invoke",
                                                   !.sawTauri = clientIsTauri,
                                                   !.sawInitialized = isInitialized]]
        /\ UNCHANGED <<clientIsTauri, isInitialized, initPromise, detectRuns>>
        /\ UNCHANGED <<envVars, taskVars, monVars, stagingVars, panelVars>>

\* The method runs to its end: the mock branch, or the invoke and what the
\* try/catch makes of its result.
methodSettles ==
    \E c \in Callers, invokeOk \in BOOLEAN :
        /\ calls[c].pc = "invoke"
        /\ calls[c].sawTauri \/ invokeOk
        /\ calls' = [calls EXCEPT ![c] =
                        [@ EXCEPT !.pc = "done",
                                  !.invoke = (IF ~calls[c].sawTauri THEN "mock"
                                              ELSE IF invokeOk THEN "ok" ELSE "failed"),
                                  !.outcome = Settles(calls[c].method,
                                                      calls[c].sawTauri, invokeOk)]]
        /\ UNCHANGED <<clientIsTauri, isInitialized, initPromise, detectRuns>>
        /\ UNCHANGED <<envVars, taskVars, monVars, stagingVars, panelVars>>

\* ------------------------------------------------- TauriAPI: file staging
\* The files the operator can pick, by what is on disk at that path.
SourcePaths == {"id_front.png", "auth_doc.png", "gone.png"}

SourceBytes(sourcePath) ==
    CASE sourcePath = "id_front.png" -> "bytesA"
      [] sourcePath = "auth_doc.png" -> "bytesB"
      [] OTHER -> "absent"

\* handleFileSelect stages under 'ip_assets' and the subcategory of the field.
Subcategories == {"auth_docs", "proof_docs"}

NoResolve == [source |-> "none", root |-> "none", relativePath |-> "none"]

\* `files/${category}/${subcategory}/mock_${Date.now()}.jpg`
MockRelativePath(subcategory, now) ==
    [root |-> "files", subcategory |-> subcategory, name |-> "mock", stamp |-> now]

\* copy_file_to_app_data: <category>/<subcategory>/<basename>_<disambiguator>
StagedRelativePath(sourcePath, subcategory, disambiguator) ==
    [root |-> "appData", subcategory |-> subcategory, name |-> sourcePath,
     stamp |-> disambiguator]

\* copy_file_to_app_data: fails with FileNotFound when the source is absent,
\* else copies its bytes to a path no staged file has yet.
copy_file_to_app_data(sourcePath, subcategory) ==
    IF SourceBytes(sourcePath) = "absent"
    THEN UNCHANGED <<appFiles, copiedFiles>>
    ELSE LET rel == StagedRelativePath(sourcePath, subcategory, stageCount + 1)
         IN /\ appFiles' = appFiles \cup {<<rel, SourceBytes(sourcePath)>>}
            /\ copiedFiles' = copiedFiles \cup
                                 {[source |-> sourcePath, relativePath |-> rel]}

\* What is on disk at the path a resolve returned: the mock root
\* `/mock/path/` holds nothing, the app data directory what was copied there.
ContentsAt(root, relativePath) ==
    IF root = "appData" /\ \E f \in appFiles : f[1] = relativePath
    THEN (CHOOSE f \in appFiles : f[1] = relativePath)[2]
    ELSE "absent"

\* await this.ensureInitialized() with no other call in flight: the
\* detection runs to its end if none has run, and isTauri is read after it.
ensureInitializedDone ==
    /\ clientIsTauri' = (IF isInitialized THEN clientIsTauri ELSE isTauri)
    /\ isInitialized' = TRUE
    /\ initPromise' = "resolved"
    /\ detectRuns' = (IF initPromise = "null" THEN detectRuns + 1 ELSE detectRuns)
    /\ UNCHANGED calls

\* handleFileSelect's call of copyFileToAppData for one selected path: the
\* mock branch makes up a path and copies nothing; else the backend copies,
\* and an error is thrown on to handleFileSelect, which records no path.
copyFileToAppData ==
    \E sourcePath \in SourcePaths, subcategory \in Subcategories :
        /\ stageCount < MaxStaged
        /\ \A c \in Callers : calls[c].pc \in {"idle", "done"}
        /\ initPromise # "pending"
        /\ ensureInitializedDone
        /\ stageCount' = stageCount + 1
        /\ IF ~clientIsTauri'
           THEN /\ copiedFiles' = copiedFiles \cup
                       {[source |-> sourcePath,
                         relativePath |-> MockRelativePath(subcategory, stageCount + 1)]}
                /\ UNCHANGED appFiles
           ELSE copy_file_to_app_data(sourcePath, subcategory)
        /\ UNCHANGED resolvedFile
        /\ UNCHANGED <<envVars, taskVars, monVars, panelVars>>

\* getAppFilePath of a path handleFileSelect recorded: the mock branch
\* returns `/mock/path/${relativePath}`; else the backend joins the path to
\* the app data directory, failing with StagedFileMissing if nothing is there.
getAppFilePath ==
    \E staged \in copiedFiles :
        /\ \A c \in Callers : calls[c].pc \in {"idle", "done"}
        /\ initPromise # "pending"
        /\ ensureInitializedDone
        /\ IF ~clientIsTauri'
           THEN resolvedFile' = [source |-> staged.source, root |-> "mockPath",
                                 relativePath |-> staged.relativePath]
           ELSE IF ContentsAt("appData", staged.relativePath) = "absent"
                THEN UNCHANGED resolvedFile
                ELSE resolvedFile' = [source |-> staged.source, root |-> "appData",
                                      relativePath |-> staged.relativePath]
        /\ UNCHANGED <<appFiles, stageCount, copiedFiles>>
        /\ UNCHANGED <<envVars, taskVars, monVars, panelVars>>

\* No launch command has been copied yet.
NoCommand == [platform |-> "none", binary |-> "none", port |-> 0,
              userDataDir |-> "none"]

\* ------------------------------------------------------------------- Init
Init ==
    /\ isTauri \in BOOLEAN
    /\ profile \in Profiles
    /\ state = "Idle"
    /\ errorMessage = ""
    /\ cancelFlag = FALSE
    /\ taskId = 0
    /\ isSubmitting = FALSE
    /\ lastContinue = "none"
    /\ pendingStart = FALSE
    /\ startResult = "none"
    /\ automationStatus = NoStatus
    /\ pc = "none"
    /\ elapsed = 0
    /\ waitStart = 0
    /\ scriptError = ""
    /\ exitCode = "none"
    /\ awaitResult = "none"
    /\ browserConnected = FALSE
    /\ waitingFile = FALSE
    /\ completedFile = FALSE
    /\ sinceStop = 0
    /\ pollsSinceStop = 0
    /\ stoppedAt = "none"
    /\ idCardFiles = <<>>
    /\ validFiles = <<>>
    /\ fileValidationErrors = 0
    /\ i = 1
    /\ uploadSuccess = FALSE
    /\ attempts = <<>>
    /\ uploadItems = 0
    /\ uploadResult = "none"
    /\ connectionMode = "auto"
    /\ connAttempts = <<>>
    /\ browserStatus = "unknown"
    /\ showBrowserConfig = FALSE
    /\ connectionCheckCount = 0
    /\ isMonitoringConnection = FALSE
    /\ refKind = "null"
    /\ refDue = 0
    /\ kicks = {}
    /\ debounceDue = -1
    /\ debounceShould = FALSE
    /\ firstShownDue = -1
    /\ pendingChecks = 0
    /\ timeoutReport = 0
    /\ sinceCheck = 0
    /\ lastGap = 0
    /\ operatorActions = 0
    /\ gaveUpAt = -1
    /\ clientIsTauri = FALSE
    /\ isInitialized = FALSE
    /\ initPromise = "null"
    /\ detectRuns = 0
    /\ calls = [c \in Callers |-> IdleCall]
    /\ appFiles = {}
    /\ stageCount = 0
    /\ copiedFiles = {}
    /\ resolvedFile = NoResolve
    /\ clipboard = NoCommand
    /\ delayed = {}
    /\ restarting = "none"
    /\ lastDelayed = "none"

\* ------------------------------------------------------ dashboard actions
\* setInterval(checkAutomationStatus, 1000), set up under Tauri only.
checkAutomationStatus ==
    /\ isTauri
    /\ \E invokeOk \in BOOLEAN :
          automationStatus' = getAutomationStatus(isTauri, invokeOk, state)
    /\ UNCHANGED <<envVars, ctlVars, isSubmitting, pendingStart, startResult,
                   lastContinue, procVars, uploadVars>>
    /\ UNCHANGED connVars
    /\ UNCHANGED monVars
    /\ UNCHANGED libVars

\* handleSubmit up to its await of tauriAPI.startAutomation. The button is
\* disabled while isSubmitting || automationStatus?.isRunning.
handleSubmit ==
    /\ ~isSubmitting
    /\ ~automationStatus.isRunning
    /\ taskId < MaxTasks \/ Active(state)
    /\ \E infringingUrl \in {"", "url"}, ipAssets \in 0..1 :
          IF infringingUrl = "" \/ ipAssets = 0
          THEN UNCHANGED <<isSubmitting, pendingStart>>
          ELSE isSubmitting' = TRUE /\ pendingStart' = TRUE
    /\ UNCHANGED <<envVars, ctlVars, startResult, automationStatus,
                   lastContinue, procVars, uploadVars>>
    /\ UNCHANGED connVars
    /\ UNCHANGED monVars
    /\ UNCHANGED libVars

\* The backend handles start_automation and handleSubmit runs to its end.
\* A start that succeeds is handled once the process of an earlier,
\* cancelled task has ended, and MaxTasks of them are followed.
startAutomationReturns ==
    /\ pendingStart
    /\ (isTauri /\ StartOutcome = "ok") => (pc = "none" /\ taskId < MaxTasks)
    /\ startResult' = startAutomation(isTauri, StartOutcome)
    /\ isSubmitting' = FALSE
    /\ pendingStart' = FALSE
    /\ IF isTauri /\ StartOutcome = "ok"
       THEN start_automation /\ lastContinue' = "none"
       ELSE UNCHANGED <<ctlVars, procVars, uploadVars, connVars, lastContinue>>
    /\ UNCHANGED <<envVars, automationStatus>>
    /\ UNCHANGED monVars
    /\ UNCHANGED libVars

\* handleStopAutomation: stopAutomation, then checkAutomationStatus. The
\* button is shown while automationStatus?.isRunning.
handleStopAutomation ==
    /\ automationStatus.isRunning
    /\ IF isTauri
       THEN stop_automation
       ELSE UNCHANGED <<state, cancelFlag, sinceStop, pollsSinceStop, stoppedAt>>
    /\ \E invokeOk \in BOOLEAN :
          automationStatus' = getAutomationStatus(isTauri, invokeOk, state')
    /\ UNCHANGED <<envVars, errorMessage, taskId, isSubmitting, pendingStart,
                   lastContinue,
                   startResult, pc, elapsed, waitStart, scriptError, exitCode,
                   awaitResult, browserConnected, waitingFile, completedFile,
                   uploadVars>>
    /\ UNCHANGED connVars
    /\ UNCHANGED monVars
    /\ UNCHANGED libVars

\* A handler that writes the signal itself and does not ask the backend
\* whether a task waits.
handleContinueWritesSignal ==
    /\ automationStatus.isRunning
    /\ automationStatus.verifying
    /\ completedFile' = isTauri
    /\ lastContinue' = (IF isTauri /\ state = "AwaitingVerification"
                        THEN lastContinue ELSE "noop")
    /\ UNCHANGED <<envVars, ctlVars, isSubmitting, pendingStart, startResult,
                   automationStatus, pc, elapsed, waitStart,
                   scriptError, exitCode, awaitResult, browserConnected,
                   waitingFile, sinceStop, pollsSinceStop, stoppedAt, uploadVars>>
    /\ UNCHANGED connVars
    /\ UNCHANGED monVars
    /\ UNCHANGED libVars

\* handleContinueAfterVerification: the button is shown while the polled
\* status is running and its step names the verification.
handleContinueAfterVerification ==
    /\ automationStatus.isRunning
    /\ automationStatus.verifying
    /\ IF isTauri
       THEN continue_automation_after_verification
       ELSE UNCHANGED completedFile
    /\ lastContinue' = (IF isTauri /\ state = "AwaitingVerification"
                        THEN lastContinue ELSE "noop")
    /\ UNCHANGED <<envVars, ctlVars, isSubmitting, pendingStart, startResult,
                   automationStatus, pc, elapsed, waitStart,
                   scriptError, exitCode, awaitResult, browserConnected,
                   waitingFile, sinceStop, pollsSinceStop, stoppedAt, uploadVars>>
    /\ UNCHANGED connVars
    /\ UNCHANGED monVars
    /\ UNCHANGED libVars

\* The values of the "连接策略" select, and the connection strategy each one
\* names ("auto" pins none).
ConnectionModes == {"auto", "connect", "persistent", "new"}

StrategyOf(mode) ==
    CASE mode = "connect"    -> "AttachExisting"
      [] mode = "persistent" -> "PersistentProfile"
      [] mode = "new"        -> "Ephemeral"
      [] OTHER               -> "none"

\* <Select value={connectionMode} onValueChange={setConnectionMode}>; the
\* operator is followed choosing the strategy before the task is submitted.
setConnectionMode ==
    /\ taskId = 0
    /\ ~pendingStart
    /\ \E mode \in ConnectionModes \ {connectionMode} : connectionMode' = mode
    /\ UNCHANGED <<envVars, ctlVars, uiVars, procVars, uploadVars, connAttempts>>
    /\ UNCHANGED monVars
    /\ UNCHANGED libVars

\* ------------------------------------------- browser connection monitoring
\* Time in this part is in ms; a timer is kept by the ms left until it fires.
\* The dashboard's effects are run with the handler that changes what they
\* depend on: the handler's state updates are rendered, the clean-ups of the
\* effects whose dependencies changed run, then their bodies.

\* currentInterval as the timer callback sets it from checkCount.
Interval(checkCount) ==
    IF checkCount <= 3 THEN 2000
    ELSE IF checkCount <= 8 THEN 3000
    ELSE 5000

\* checkBrowserConnection up to its await: the status it sets, and the calls
\* of check_browser_connection_status under way.
CheckStatus == IF isTauri THEN "checking" ELSE "disconnected"

CheckPending == IF isTauri THEN pendingChecks + 1 ELSE pendingChecks

\* The render that follows a handler. st, show, rk, rd, mon, db, fs are
\* browserStatus, showBrowserConfig, monitoringIntervalRef (kind, ms left),
\* isMonitoringConnection and the two effect timers as the handler left them.
\* When browserStatus or showBrowserConfig changed, the monitoring effect is
\* cleaned up (its debounce timer cleared, stopMonitoring()) and run again
\* (shouldMonitor computed, a new debounce timer), and so is the first-shown
\* effect.
Render(st, show, rk, rd, mon, db, fs) ==
    /\ browserStatus' = st
    /\ showBrowserConfig' = show
    /\ IF st # browserStatus \/ show # showBrowserConfig
       THEN /\ refKind' = "null"
            /\ refDue' = 0
            /\ isMonitoringConnection' = FALSE
            /\ debounceDue' = debounceDelay
            /\ debounceShould' = (isTauri /\ show /\ st \notin {"connected", "checking"})
            /\ firstShownDue' = (IF show /\ isTauri /\ st = "unknown"
                                 THEN FirstShownDelay ELSE -1)
       ELSE /\ refKind' = rk
            /\ refDue' = rd
            /\ isMonitoringConnection' = mon
            /\ debounceDue' = db
            /\ firstShownDue' = fs
            /\ UNCHANGED debounceShould

\* The monitor issues a check: the time since its previous check is logged.
LogAttempt ==
    /\ lastGap' = (IF sinceCheck < 0 THEN 0 ELSE sinceCheck)
    /\ sinceCheck' = 0

\* connectionCheckCount goes back to 0: a new polling run.
LogReset ==
    /\ lastGap' = 0
    /\ sinceCheck' = -1

\* The ms left of every pending timer.
Dues ==
    kicks
    \cup (IF refKind \in {"initial", "tick"} THEN {refDue} ELSE {})
    \cup (IF debounceDue >= 0 THEN {debounceDue} ELSE {})
    \cup (IF firstShownDue >= 0 THEN {firstShownDue} ELSE {})
    \cup {t.due : t \in delayed}

\* Time passes up to the next timer. check_browser_connection_status is
\* followed answering before the next timer is due.
AdvanceTime ==
    /\ pendingChecks = 0
    /\ Dues # {}
    /\ 0 \notin Dues
    /\ LET d == CHOOSE x \in Dues : \A y \in Dues : x <= y
       IN /\ kicks' = {k - d : k \in kicks}
          /\ refDue' = (IF refKind \in {"initial", "tick"} THEN refDue - d ELSE refDue)
          /\ debounceDue' = (IF debounceDue >= 0 THEN debounceDue - d ELSE debounceDue)
          /\ firstShownDue' = (IF firstShownDue >= 0 THEN firstShownDue - d ELSE firstShownDue)
          /\ delayed' = {[t EXCEPT !.due = @ - d] : t \in delayed}
          /\ sinceCheck' = (IF sinceCheck < 0 THEN sinceCheck ELSE Min(MaxGap, sinceCheck + d))
    /\ UNCHANGED <<envVars, taskVars, browserStatus, showBrowserConfig,
                   connectionCheckCount, isMonitoringConnection, refKind,
                   debounceShould, pendingChecks, timeoutReport, lastGap>>
    /\ UNCHANGED <<operatorActions, gaveUpAt>>
    /\ UNCHANGED <<clientVars, stagingVars, clipboard, restarting, lastDelayed>>

\* TabsTrigger onClick={() => setShowBrowserConfig(...)}
setShowBrowserConfig ==
    /\ operatorActions < MaxOperatorActions
    /\ operatorActions' = operatorActions + 1
    /\ UNCHANGED gaveUpAt
    /\ \E show \in BOOLEAN \ {showBrowserConfig} :
          Render(browserStatus, show, refKind, refDue, isMonitoringConnection,
                 debounceDue, firstShownDue)
    /\ UNCHANGED <<envVars, taskVars, connectionCheckCount, kicks, pendingChecks,
                   timeoutReport, sinceCheck, lastGap>>
    /\ UNCHANGED libVars

\* <Button onClick={checkBrowserConnection} disabled={browserStatus === "checking"}>
manualCheck ==
    /\ browserStatus # "checking"
    /\ operatorActions < MaxOperatorActions
    /\ operatorActions' = operatorActions + 1
    /\ UNCHANGED gaveUpAt
    /\ pendingChecks' = CheckPending
    /\ Render(CheckStatus, showBrowserConfig, refKind, refDue,
              isMonitoringConnection, debounceDue, firstShownDue)
    /\ UNCHANGED <<envVars, taskVars, connectionCheckCount, kicks, timeoutReport,
                   sinceCheck, lastGap>>
    /\ UNCHANGED libVars

\* The first-shown effect's timer: checkBrowserConnection().
FireFirstShown ==
    /\ firstShownDue = 0
    /\ pendingChecks' = CheckPending
    /\ Render(CheckStatus, showBrowserConfig, refKind, refDue,
              isMonitoringConnection, debounceDue, -1)
    /\ UNCHANGED <<envVars, taskVars, connectionCheckCount, kicks, timeoutReport,
                   sinceCheck, lastGap>>
    /\ UNCHANGED <<operatorActions, gaveUpAt>>
    /\ UNCHANGED libVars

\* The debounce timer of the monitoring effect: startMonitoring() or
\* stopMonitoring(). It fires after the timers that were set before it.
\* startMonitoring returns at once if monitoringIntervalRef names a timer;
\* else it sets the initial check (the ref names it) and, apart from the ref,
\* setTimeout(scheduleNextCheck, 1500).
FireDebounce ==
    /\ debounceDue = 0
    /\ 0 \notin kicks
    /\ ~(refKind \in {"initial", "tick"} /\ refDue = 0)
    /\ debounceDue' = -1
    /\ IF debounceShould /\ ~isMonitoringConnection
       THEN /\ IF refKind # "null"
               THEN UNCHANGED <<isMonitoringConnection, refKind, refDue, kicks>>
               ELSE /\ isMonitoringConnection' = TRUE
                    /\ refKind' = "initial"
                    /\ refDue' = InitialCheckDelay
                    /\ kicks' = kicks \cup {ScheduleDelay}
            /\ UNCHANGED <<connectionCheckCount, sinceCheck, lastGap>>
       ELSE IF ~debounceShould /\ isMonitoringConnection
       THEN /\ refKind' = "null"
            /\ refDue' = 0
            /\ isMonitoringConnection' = FALSE
            /\ connectionCheckCount' = 0
            /\ LogReset
            /\ UNCHANGED kicks
       ELSE UNCHANGED <<isMonitoringConnection, refKind, refDue, kicks,
                        connectionCheckCount, sinceCheck, lastGap>>
    /\ UNCHANGED <<envVars, taskVars, browserStatus, showBrowserConfig,
                   debounceShould, firstShownDue, pendingChecks, timeoutReport>>
    /\ UNCHANGED <<operatorActions, gaveUpAt>>
    /\ UNCHANGED libVars

\* initialTimeout of startMonitoring: checkBrowserConnection().
FireInitial ==
    /\ refKind = "initial"
    /\ refDue = 0
    /\ pendingChecks' = CheckPending
    /\ LogAttempt
    /\ Render(CheckStatus, showBrowserConfig, "fired", 0,
              isMonitoringConnection, debounceDue, firstShownDue)
    /\ UNCHANGED <<envVars, taskVars, connectionCheckCount, kicks, timeoutReport>>
    /\ UNCHANGED <<operatorActions, gaveUpAt>>
    /\ UNCHANGED libVars

\* setTimeout(scheduleNextCheck, 1500) fires: the timer the ref names is
\* cleared and the ref names a new one, due in currentInterval (2000 so far).
FireKick ==
    /\ 0 \in kicks
    /\ kicks' = kicks \ {0}
    /\ refKind' = "tick"
    /\ refDue' = FirstInterval
    /\ UNCHANGED <<envVars, taskVars, browserStatus, showBrowserConfig,
                   connectionCheckCount, isMonitoringConnection, debounceDue,
                   debounceShould, firstShownDue, pendingChecks, timeoutReport,
                   sinceCheck, lastGap>>
    /\ UNCHANGED <<operatorActions, gaveUpAt>>
    /\ UNCHANGED libVars

\* The callback scheduleNextCheck sets: the timeout after 15 attempts, or a
\* check and the next timer, or the end of the monitoring once connected.
FireTick ==
    /\ refKind = "tick"
    /\ refDue = 0
    /\ IF browserStatus = "starting" /\ connectionCheckCount >= MaxAttempts
       THEN /\ timeoutReport' = connectionCheckCount
            /\ gaveUpAt' = operatorActions
            /\ connectionCheckCount' = 0
            /\ LogReset
            /\ Render("disconnected", showBrowserConfig, "null", 0, FALSE,
                      debounceDue, firstShownDue)
            /\ UNCHANGED pendingChecks
       ELSE IF browserStatus # "connected"
       THEN /\ pendingChecks' = CheckPending
            /\ LogAttempt
            /\ Render(CheckStatus, showBrowserConfig, "tick",
                      Interval(connectionCheckCount), isMonitoringConnection,
                      debounceDue, firstShownDue)
            /\ UNCHANGED <<connectionCheckCount, timeoutReport, gaveUpAt>>
       ELSE /\ Render(browserStatus, showBrowserConfig, "null", 0, FALSE,
                      debounceDue, firstShownDue)
            /\ UNCHANGED <<connectionCheckCount, timeoutReport, pendingChecks,
                           sinceCheck, lastGap, gaveUpAt>>
    /\ UNCHANGED <<envVars, taskVars, kicks>>
    /\ UNCHANGED operatorActions
    /\ UNCHANGED libVars

\* checkBrowserConnection after its await: the backend's answer is mapped to
\* browserStatus and connectionCheckCount.
CheckResponse ==
    /\ pendingChecks > 0
    /\ pendingChecks' = pendingChecks - 1
    /\ \E status \in {"connected", "running_no_debug", "disconnected"} :
          CASE status = "connected" ->
                 /\ connectionCheckCount' = 0
                 /\ LogReset
                 /\ Render("connected", showBrowserConfig, refKind, refDue, FALSE,
                           debounceDue, firstShownDue)
            [] status = "running_no_debug" ->
                 /\ connectionCheckCount < MaxCheckCount
                 /\ connectionCheckCount' = connectionCheckCount + 1
                 /\ UNCHANGED <<sinceCheck, lastGap>>
                 /\ Render("starting", showBrowserConfig, refKind, refDue,
                           isMonitoringConnection, debounceDue, firstShownDue)
            [] OTHER ->
                 /\ connectionCheckCount' = 0
                 /\ LogReset
                 /\ Render("disconnected", showBrowserConfig, refKind, refDue,
                           isMonitoringConnection, debounceDue, firstShownDue)
    /\ UNCHANGED <<envVars, taskVars, kicks, timeoutReport>>
    /\ UNCHANGED <<operatorActions, gaveUpAt>>
    /\ UNCHANGED libVars

\* --------------------------------------------- the launch command and the
\* --------------------------------------------- buttons of the panel
Platforms == {"win32", "darwin", "linux"}

\* getChromeUserDataDir: the profile directory the application owns.
getChromeUserDataDir(platform) ==
    CASE platform = "win32" -> "~/AppData/Local/RightsGuard/ChromeProfile"
      [] platform = "darwin" -> "~/Library/Application Support/RightsGuard/ChromeProfile"
      [] OTHER -> "~/.config/rights-guard/chrome-profile"

\* generateChromeCommand: binary, debugging port and --user-data-dir.
generateChromeCommand(platform) ==
    [platform |-> platform,
     binary |-> (CASE platform = "win32" -> "chrome.exe"
                   [] platform = "darwin" -> "/Applications/Google Chrome.app/Contents/MacOS/Google Chrome"
                   [] OTHER -> "google-chrome"),
     port |-> DebugPort,
     userDataDir |-> getChromeUserDataDir(platform)]

\* The backend's get_browser_launch_command, which generateChromeCommand
\* mirrors.
get_browser_launch_command(platform) == generateChromeCommand(platform)

\* The --user-data-dir of generateBrowserCommand's web fallback.
FallbackUserDataDir(platform) ==
    CASE platform = "win32" -> "%USERPROFILE%/AppData/Local/Google/Chrome/User Data"
      [] platform = "darwin" -> "~/Library/Application Support/Google/Chrome"
      [] OTHER -> "~/.config/google-chrome"

\* generateBrowserCommand: the backend's command under Tauri, the fallback
\* in the web environment, and the catch's command when the call fails.
generateBrowserCommand(tauri, platform, invokeOk) ==
    IF tauri
    THEN IF invokeOk
         THEN get_browser_launch_command(platform)
         ELSE [platform |-> platform, binary |-> "chrome.exe", port |-> DebugPort,
               userDataDir |-> FallbackUserDataDir("win32")]
    ELSE [platform |-> platform, binary |-> "chrome.exe", port |-> DebugPort,
          userDataDir |-> FallbackUserDataDir(platform)]

\* The profile directories of the application, and those of the operator's
\* own Chrome.
AppOwnedProfileDirs == {getChromeUserDataDir(p) : p \in Platforms}

DefaultProfileDirs == {FallbackUserDataDir(p) : p \in Platforms}

\* A delayed callback that sets "starting" whatever the status is.
DelayedSetsStartingUnguarded(show, status) == show

\* if (showBrowserConfig && browserStatusRef.current !== "connected")
\* (copyBrowserCommand's callback has no showBrowserConfig in its test).
DelayedSetsStarting(show, status) == show /\ status # "connected"

\* copyBrowserCommand after its awaits: the command is on the clipboard, the
\* count is reset, the status is "checking" and the callback is set. When
\* the clipboard cannot be written the catch shows a message only.
copyBrowserCommand ==
    /\ operatorActions < MaxOperatorActions
    /\ operatorActions' = operatorActions + 1
    /\ \E platform \in Platforms, invokeOk \in BOOLEAN, written \in BOOLEAN :
          /\ isTauri \/ invokeOk
          /\ clipboard = NoCommand \/ clipboard.platform = platform
          /\ IF written
             THEN /\ clipboard' = generateBrowserCommand(isTauri, platform, invokeOk)
                  /\ connectionCheckCount' = 0
                  /\ LogReset
                  /\ delayed' = delayed \cup
                                  {[from |-> "copy", due |-> CopyDelay, show |-> TRUE]}
                  /\ Render("checking", showBrowserConfig, refKind, refDue,
                            isMonitoringConnection, debounceDue, firstShownDue)
             ELSE UNCHANGED <<clipboard, connectionCheckCount, sinceCheck, lastGap,
                              delayed, browserStatus, showBrowserConfig, refKind,
                              refDue, isMonitoringConnection, debounceDue,
                              debounceShould, firstShownDue>>
    /\ UNCHANGED <<envVars, taskVars, kicks, pendingChecks, timeoutReport, gaveUpAt>>
    /\ UNCHANGED <<clientVars, stagingVars, restarting, lastDelayed>>

\* handleForceRestartChrome up to its await: stopMonitoring(), "checking",
\* the count reset. The callback it will set closes over showBrowserConfig
\* as it is now.
handleForceRestartChrome ==
    /\ restarting = "none"
    /\ operatorActions < MaxOperatorActions
    /\ operatorActions' = operatorActions + 1
    /\ restarting' = (IF showBrowserConfig THEN "shown" ELSE "hidden")
    /\ connectionCheckCount' = 0
    /\ LogReset
    /\ Render("checking", showBrowserConfig, "null", 0, FALSE, debounceDue,
              firstShownDue)
    /\ UNCHANGED <<envVars, taskVars, kicks, pendingChecks, timeoutReport, gaveUpAt>>
    /\ UNCHANGED <<clientVars, stagingVars, clipboard, delayed, lastDelayed>>

\* forceRestartChrome and its message have returned: "disconnected" and the
\* callback; or the call failed and the catch sets "disconnected" alone.
forceRestartChromeReturns ==
    /\ restarting # "none"
    /\ restarting' = "none"
    /\ \E ok \in BOOLEAN :
          /\ isTauri \/ ok
          /\ delayed' = (IF ok
                         THEN delayed \cup {[from |-> "restart", due |-> RestartDelay,
                                             show |-> (restarting = "shown")]}
                         ELSE delayed)
    /\ Render("disconnected", showBrowserConfig, refKind, refDue,
              isMonitoringConnection, debounceDue, firstShownDue)
    /\ UNCHANGED <<envVars, taskVars, connectionCheckCount, kicks, pendingChecks,
                   timeoutReport, sinceCheck, lastGap, operatorActions, gaveUpAt>>
    /\ UNCHANGED <<clientVars, stagingVars, clipboard, lastDelayed>>

\* A delayed callback of copyBrowserCommand or handleForceRestartChrome.
FireDelayed ==
    \E t \in delayed :
        /\ t.due = 0
        /\ delayed' = delayed \ {t}
        /\ IF DelayedSetsStarting(t.show, browserStatus)
           THEN /\ lastDelayed' = "starting"
                /\ Render("starting", showBrowserConfig, refKind, refDue,
                          isMonitoringConnection, debounceDue, firstShownDue)
           ELSE /\ lastDelayed' = "skipped"
                /\ UNCHANGED <<browserStatus, showBrowserConfig, refKind, refDue,
                               isMonitoringConnection, debounceDue, debounceShould,
                               firstShownDue>>
        /\ UNCHANGED <<envVars, taskVars, connectionCheckCount, kicks, pendingChecks,
                       timeoutReport, sinceCheck, lastGap, operatorActions, gaveUpAt>>
        /\ UNCHANGED <<clientVars, stagingVars, clipboard, restarting>>

\* ------------------------------------------------------ the script process
\* An outer catch that logs the error and lets the test pass.
OuterCatchSwallows(error) == "passed"

\* } catch (error) { console.error(...); throw error; }
OuterCatch(error) == "failed"

\* A statement outside the inner try blocks throws: the outer catch runs and
\* the process ends, which closes its connection to the browser.
Throw(error) ==
    /\ scriptError' = error
    /\ exitCode' = OuterCatch(error)
    /\ pc' = "exited"
    /\ browserConnected' = FALSE

\* The test's clock has not run out: the next statement is executed.
InTime == elapsed < TestTimeout

\* npx playwright test: the process comes up and the test begins.
ScriptLaunch ==
    /\ pc = "launch"
    /\ InTime
    /\ pc' = "connect"
    /\ state' = Track("Connecting")
    /\ UNCHANGED <<envVars, errorMessage, cancelFlag, taskId, uiVars, elapsed,
                   waitStart, scriptError, exitCode, awaitResult,
                   browserConnected, waitingFile, completedFile, sinceStop,
                   pollsSinceStop, stoppedAt, uploadVars>>
    /\ UNCHANGED connVars
    /\ UNCHANGED monVars
    /\ UNCHANGED libVars

\* chromium.connectOverCDP('http://127.0.0.1:9222', { timeout: 15000 })
ScriptConnect ==
    /\ pc = "connect"
    /\ InTime
    /\ connAttempts' = Append(connAttempts, "AttachExisting")
    /\ UNCHANGED connectionMode
    /\ \E ok \in BOOLEAN :
          IF ok
          THEN /\ browserConnected' = TRUE
               /\ pc' = "nav"
               /\ state' = Track("FillingForm")
               /\ UNCHANGED <<scriptError, exitCode>>
          ELSE /\ Throw("ConnectionFailed")
               /\ UNCHANGED state
    /\ UNCHANGED <<envVars, errorMessage, cancelFlag, taskId, uiVars, elapsed,
                   waitStart, awaitResult, waitingFile, completedFile,
                   sinceStop, pollsSinceStop, stoppedAt, uploadVars>>
    /\ UNCHANGED monVars
    /\ UNCHANGED libVars

\* page.goto and the four fills of the personal data.
ScriptFillPersonal ==
    /\ pc = "nav"
    /\ InTime
    /\ \E ok \in BOOLEAN :
          IF ok
          THEN /\ pc' = "validate"
               /\ UNCHANGED <<scriptError, exitCode, browserConnected>>
          ELSE Throw("PageError")
    /\ UNCHANGED <<envVars, ctlVars, uiVars, elapsed, waitStart, awaitResult,
                   waitingFile, completedFile, sinceStop, pollsSinceStop, stoppedAt,
                   uploadVars>>
    /\ UNCHANGED connVars
    /\ UNCHANGED monVars
    /\ UNCHANGED libVars

\* The end of the upload block and the entry of the wait loop: the block's
\* variables go out of scope and the attempts of the call are discarded,
\* waiting_for_verification.txt is written.
EnterWait(result) ==
    /\ uploadResult' = result
    /\ attempts' = <<>>
    /\ idCardFiles' = <<>>
    /\ validFiles' = <<>>
    /\ fileValidationErrors' = 0
    /\ i' = 1
    /\ uploadSuccess' = FALSE
    /\ waitingFile' = TRUE
    /\ waitStart' = elapsed
    /\ pc' = "await"
    /\ state' = Track("AwaitingVerification")

\* The validation loop over idCardFiles, up to `if (validFiles.length === 0)`:
\* the disk is read; with no valid file the block throws, its own catch logs
\* the error and the script goes on to the verification wait.
ScriptValidate ==
    /\ pc = "validate"
    /\ InTime
    /\ \E files \in IdCardLists :
          IF Len(ValidatedFiles(files)) = 0
          THEN /\ EnterWait("noValidFiles")
               /\ UNCHANGED uploadItems
          ELSE /\ idCardFiles' = files
               /\ validFiles' = ValidatedFiles(files)
               /\ fileValidationErrors' = ValidationErrors(files)
               /\ i' = 1
               /\ uploadSuccess' = FALSE
               /\ pc' = "upload"
               /\ UNCHANGED <<state, waitStart, waitingFile, attempts,
                              uploadItems, uploadResult>>
    /\ UNCHANGED <<envVars, errorMessage, cancelFlag, taskId, uiVars, elapsed,
                   scriptError, exitCode, awaitResult, browserConnected,
                   completedFile, sinceStop, pollsSinceStop, stoppedAt>>
    /\ UNCHANGED connVars
    /\ UNCHANGED monVars
    /\ UNCHANGED libVars

\* One pass of the strategy loop: the strategy is tried, its settle wait is
\* waited out, the upload list is counted, and a success breaks the loop.
ScriptStrategy ==
    /\ pc = "upload"
    /\ InTime
    /\ LoopContinues(i, uploadSuccess)
    /\ \E r \in Responses(Len(validFiles)) :
          LET type == selectorStrategies[i]
              won == StrategySucceeds(type, r, uploadItems)
          IN /\ attempts' = Append(attempts,
                                   [strategyName |-> type,
                                    succeeded |-> won,
                                    evidenceCount |-> Evidence(type, r, uploadItems)])
             /\ uploadItems' = ItemsAfter(type, r, uploadItems)
             /\ uploadSuccess' = won
             /\ i' = IF won THEN i ELSE i + 1
    /\ UNCHANGED <<envVars, ctlVars, uiVars, procVars, idCardFiles, validFiles,
                   fileValidationErrors, uploadResult>>
    /\ UNCHANGED connVars
    /\ UNCHANGED monVars
    /\ UNCHANGED libVars

\* The loop is left: `if (!uploadSuccess)` logs a diagnosis of the page, and
\* in either case the script goes on to the verification wait.
ScriptUploadEnd ==
    /\ pc = "upload"
    /\ InTime
    /\ ~LoopContinues(i, uploadSuccess)
    /\ EnterWait(IF uploadSuccess THEN "success" ELSE "exhausted")
    /\ UNCHANGED <<envVars, errorMessage, cancelFlag, taskId, uiVars, elapsed,
                   scriptError, exitCode, awaitResult, browserConnected,
                   completedFile, sinceStop, pollsSinceStop, stoppedAt,
                   uploadItems>>
    /\ UNCHANGED connVars
    /\ UNCHANGED monVars
    /\ UNCHANGED libVars

\* One pass of `while (true)`: if verification_completed.txt exists both
\* files are unlinked and the loop is left, else the script sleeps 1000 ms.
AwaitPoll ==
    /\ pc = "await"
    /\ InTime
    /\ IF completedFile
       THEN /\ completedFile' = FALSE
            /\ waitingFile' = FALSE
            /\ awaitResult' = "Resumed"
            /\ pc' = "post"
            /\ state' = Track("Resuming")
            /\ UNCHANGED pollsSinceStop
       ELSE /\ pollsSinceStop' = (IF stoppedAt = "await"
                                   THEN Min(MaxPolls, pollsSinceStop + 1)
                                   ELSE pollsSinceStop)
            /\ UNCHANGED <<completedFile, waitingFile, awaitResult, pc, state>>
    /\ UNCHANGED <<envVars, errorMessage, cancelFlag, taskId, uiVars, elapsed,
                   waitStart, scriptError, exitCode, browserConnected,
                   sinceStop, stoppedAt, uploadVars>>
    /\ UNCHANGED connVars
    /\ UNCHANGED monVars
    /\ UNCHANGED libVars

\* After the verification: "next", the IP-asset fields, "next".
ScriptResume ==
    /\ pc = "post"
    /\ InTime
    /\ \E ok \in BOOLEAN :
          IF ok
          THEN /\ pc' = "authUpload"
               /\ state' = Track("Uploading")
               /\ UNCHANGED <<scriptError, exitCode, browserConnected>>
          ELSE /\ Throw("PageError")
               /\ UNCHANGED state
    /\ UNCHANGED <<envVars, errorMessage, cancelFlag, taskId, uiVars, elapsed,
                   waitStart, awaitResult, waitingFile, completedFile,
                   sinceStop, pollsSinceStop, stoppedAt, uploadVars>>
    /\ UNCHANGED connVars
    /\ UNCHANGED monVars
    /\ UNCHANGED libVars

\* A script whose authorisation upload is followed by a second
\* verification wait.
ScriptAuthUploadThenVerify ==
    /\ pc = "authUpload"
    /\ InTime
    /\ \E ok \in BOOLEAN :
          IF ok
          THEN /\ pc' = "await"
               /\ state' = Track("AwaitingVerification")
               /\ UNCHANGED <<scriptError, exitCode, browserConnected>>
          ELSE /\ Throw("PageError")
               /\ UNCHANGED state
    /\ UNCHANGED <<envVars, errorMessage, cancelFlag, taskId, uiVars, elapsed,
                   waitStart, awaitResult, waitingFile, completedFile,
                   sinceStop, pollsSinceStop, stoppedAt, uploadVars>>
    /\ UNCHANGED connVars
    /\ UNCHANGED monVars
    /\ UNCHANGED libVars

\* The authorisation-document upload (its own try/catch) and the appeal
\* details; the script then keeps the page open: await new Promise(() => {}).
ScriptAuthUpload ==
    /\ pc = "authUpload"
    /\ InTime
    /\ \E ok \in BOOLEAN :
          IF ok
          THEN /\ pc' = "final"
               /\ state' = Track("AwaitingFinalConfirmation")
               /\ UNCHANGED <<scriptError, exitCode, browserConnected>>
          ELSE /\ Throw("PageError")
               /\ UNCHANGED state
    /\ UNCHANGED <<envVars, errorMessage, cancelFlag, taskId, uiVars, elapsed,
                   waitStart, awaitResult, waitingFile, completedFile,
                   sinceStop, pollsSinceStop, stoppedAt, uploadVars>>
    /\ UNCHANGED connVars
    /\ UNCHANGED monVars
    /\ UNCHANGED libVars

\* Time passes while the test runs.
Tick ==
    /\ Running
    /\ InTime
    /\ elapsed' = elapsed + Quantum
    /\ sinceStop' = (IF cancelFlag THEN Min(1, sinceStop + 1) ELSE sinceStop)
    /\ UNCHANGED <<envVars, ctlVars, uiVars, pc, waitStart, scriptError,
                   exitCode, awaitResult, browserConnected, waitingFile,
                   completedFile, pollsSinceStop, stoppedAt, uploadVars>>
    /\ UNCHANGED connVars
    /\ UNCHANGED monVars
    /\ UNCHANGED libVars

\* timeout: 300000 of playwright.config.js: the runner ends a test that has
\* run for that long, wherever it stands.
PlaywrightTimeout ==
    /\ Running
    /\ ~InTime
    /\ awaitResult' = (IF pc = "await" THEN "TimedOut" ELSE awaitResult)
    /\ scriptError' = "TestTimeout"
    /\ exitCode' = "failed"
    /\ pc' = "exited"
    /\ browserConnected' = FALSE
    /\ UNCHANGED <<envVars, ctlVars, uiVars, elapsed, waitStart, waitingFile,
                   completedFile, sinceStop, pollsSinceStop, stoppedAt, uploadVars>>
    /\ UNCHANGED connVars
    /\ UNCHANGED monVars
    /\ UNCHANGED libVars

\* The controller boundary: the background context has ended; a failure is
\* recorded in errorMessage and the task moves to Failed.
ControllerOnExit ==
    /\ pc = "exited"
    /\ pc' = "none"
    /\ IF Active(state)
       THEN IF exitCode = "failed"
            THEN state' = "Failed" /\ errorMessage' = scriptError
            ELSE state' = "Completed" /\ UNCHANGED errorMessage
       ELSE UNCHANGED <<state, errorMessage>>
    /\ UNCHANGED <<envVars, cancelFlag, taskId, uiVars, elapsed, waitStart,
                   scriptError, exitCode, awaitResult, browserConnected,
                   waitingFile, completedFile, sinceStop, pollsSinceStop, stoppedAt,
                   uploadVars>>
    /\ UNCHANGED connVars
    /\ UNCHANGED monVars
    /\ UNCHANGED libVars

\* ------------------------------------------------------- specifications
Next ==
    \/ checkAutomationStatus
    \/ handleSubmit
    \/ startAutomationReturns
    \/ handleStopAutomation
    \/ handleContinueAfterVerification
    \/ ScriptLaunch
    \/ ScriptConnect
    \/ ScriptFillPersonal
    \/ ScriptValidate
    \/ ScriptStrategy
    \/ ScriptUploadEnd
    \/ AwaitPoll
    \/ ScriptResume
    \/ ScriptAuthUpload
    \/ Tick
    \/ PlaywrightTimeout
    \/ ControllerOnExit

Spec == Init /\ [][Next]_vars

\* The clock runs, the runner's timer fires and the controller sees the
\* process end.
FairSpec ==
    /\ Spec
    /\ WF_vars(Tick)
    /\ WF_vars(PlaywrightTimeout)
    /\ WF_vars(ControllerOnExit)

\* The system with the operator choosing the connection strategy.
ConnNext == Next \/ setConnectionMode

ConnSpec == Init /\ [][ConnNext]_vars

\* The browser-connection panel of the dashboard: the operator, the timers
\* and the backend's answers.
MonitorNext ==
    \/ setShowBrowserConfig
    \/ manualCheck
    \/ AdvanceTime
    \/ FireFirstShown
    \/ FireDebounce
    \/ FireInitial
    \/ FireKick
    \/ FireTick
    \/ CheckResponse

MonitorSpec == Init /\ [][MonitorNext]_vars

\* The TauriAPI object with several of its methods called together.
ClientNext ==
    \/ callCheckBrowserConnectionStatus
    \/ callWithoutInit
    \/ detectEnvironment
    \/ resumeAfterInit
    \/ methodSettles

ClientSpec == Init /\ [][ClientNext]_vars

\* The monitor with the copy-command and force-restart buttons.
PanelNext ==
    \/ MonitorNext
    \/ copyBrowserCommand
    \/ handleForceRestartChrome
    \/ forceRestartChromeReturns
    \/ FireDelayed

PanelSpec == Init /\ [][PanelNext]_vars

\* File staging alone: the operator picks files and the paths recorded are
\* resolved.
StagingNext ==
    \/ copyFileToAppData
    \/ getAppFilePath

StagingSpec == Init /\ [][StagingNext]_vars

\* ------------------------------------------------------------------ claims
\* C1: while a started task has not reached a terminal state, a further
\* startAutomation call is answered TaskAlreadyRunning and starts nothing: the
\* task, its status and its process are the ones there were.
C1_TaskAlreadyRunning ==
    [][(pendingStart /\ ~pendingStart' /\ Active(state))
         => (/\ startResult' = "TaskAlreadyRunning"
             /\ taskId' = taskId
             /\ state' = state
             /\ pc' = pc)]_vars

\* A second start was refused while the first task was still active.
C1_Witness ==
    /\ startResult = "TaskAlreadyRunning"
    /\ Active(state)
    /\ taskId = 1

\* C2: once stop() has been issued the task is Cancelled, and by the time a
\* clock step has gone by the browser connection is released and no
\* verification wait is pending.
C2_StopForcesCancelled ==
    cancelFlag =>
        /\ state = "Cancelled"
        /\ (sinceStop >= 1 => (~browserConnected /\ pc # "await"))

\* C3: a stop() issued while the verification wait is blocked makes the wait
\* return Cancelled within one pass of its polling loop.
C3_AwaitReturnsCancelled ==
    (stoppedAt = "await" /\ pollsSinceStop >= 1) => awaitResult = "Cancelled"

\* C4: a verification wait that ends TimedOut has lasted at least the
\* timeout, never less.
C4_TimedOutNotEarly ==
    awaitResult = "TimedOut" => elapsed - waitStart >= TestTimeout

\* C5: every started task reaches a terminal state, and a failure raised in
\* the script ends in Failed with an errorMessage (or in Cancelled, if the
\* operator stopped the task first).
C5_FailureReachesFailed ==
    /\ Active(state) ~> (state \in Terminal)
    /\ (pc = "exited" /\ scriptError # "" /\ Active(state))
         ~> (state = "Cancelled" \/ (state = "Failed" /\ errorMessage # ""))

\* A failure of a stage after the verification was recorded.
C5_Witness ==
    /\ state = "Failed"
    /\ errorMessage = "PageError"
    /\ awaitResult = "Resumed"

\* C6: the k-th attempt of an upload call is the k-th strategy of the fixed
\* order, an attempt that succeeded is the last one the call makes, and a
\* loop that is left without a success has tried every strategy.
C6_FirstSuccessStops ==
    /\ \A k \in 1..Len(attempts) :
          /\ k <= Len(selectorStrategies)
          /\ attempts[k].strategyName = selectorStrategies[k]
          /\ attempts[k].succeeded => k = Len(attempts)
    /\ (pc = "upload" /\ ~LoopContinues(i, uploadSuccess) /\ ~uploadSuccess)
          => Len(attempts) = Len(selectorStrategies)

\* Only the third strategy succeeded and the loop was left there.
C6_Witness ==
    /\ pc = "upload"
    /\ Len(attempts) = 3
    /\ attempts[3].succeeded
    /\ ~attempts[1].succeeded /\ ~attempts[2].succeeded
    /\ uploadSuccess
    /\ ~ENABLED ScriptStrategy

\* C7: an upload whose strategies are all exhausted fails with
\* UploadExhausted.
C7_ExhaustedFails ==
    uploadResult = "exhausted" =>
        (exitCode = "failed" /\ scriptError = "UploadExhausted")

\* C8: with a missing or zero-byte file among the paths no strategy is
\* attempted and the upload ends as InvalidUploadFile.
C8_InvalidFileAborts ==
    (\E k \in 1..Len(idCardFiles) : idCardFiles[k] \in {"missing", "empty"})
        => (attempts = <<>> /\ uploadResult \in {"none", "InvalidUploadFile"})

\* C9: when the upload block has consumed the staged paths and one of them is
\* missing on disk, the script has failed with StagedFileMissing: it does not
\* go on with the other files.
C9_MissingFileFailsExplicitly ==
    (\E k \in 1..Len(idCardFiles) : idCardFiles[k] = "missing")
        => (exitCode = "failed" /\ scriptError = "StagedFileMissing")

\* C10: an attempt recorded as succeeded counted a non-zero number of
\* attached items after its settle wait.
C10_SuccessNeedsEvidence ==
    \A k \in 1..Len(attempts) :
        attempts[k].succeeded => attempts[k].evidenceCount > 0

\* C11: a setup error is detected before any browser interaction. A start
\* refused with ProfileMissing or IncompleteTaskData has created no task and
\* no script process, and when the ID-card files are found invalid (no valid
\* file among them) the script holds no browser connection and the task has
\* not gone past Idle.
C11_SetupErrorsBeforeBrowser ==
    /\ startResult \in {"ProfileMissing", "IncompleteTaskData"}
         => (taskId = 0 /\ state = "Idle" /\ pc = "none" /\ ~browserConnected)
    /\ uploadResult = "noValidFiles"
         => (~browserConnected /\ state = "Idle")

\* C12: with no strategy pinned the strategies are tried in the order
\* AttachExisting, PersistentProfile, Ephemeral, and the connection is given
\* up (ConnectionFailed) only after all three have been tried and have failed.
C12_AcquireOrder ==
    /\ \A k \in 1..Len(connAttempts) :
          /\ k <= 3
          /\ connAttempts[k] = <<"AttachExisting", "PersistentProfile", "Ephemeral">>[k]
    /\ (connectionMode = "auto" /\ scriptError = "ConnectionFailed")
          => connAttempts = <<"AttachExisting", "PersistentProfile", "Ephemeral">>

\* C13: with a strategy pinned, the only strategy the task tries is the
\* pinned one.
C13_OnlyPreferredTried ==
    (connectionMode # "auto" /\ connAttempts # <<>>)
        => connAttempts = <<StrategyOf(connectionMode)>>

\* C14: the polling is capped at 15 attempts: connectionCheckCount does not
\* pass the cap, and the timeout reports attempts = 15.
C14_CapAtFifteen ==
    /\ connectionCheckCount <= MaxAttempts
    /\ timeoutReport # 0 => timeoutReport = MaxAttempts

\* C15: within one polling run the time between two successive checks of the
\* monitor never decreases.
C15_IntervalsNeverDecrease ==
    [][(lastGap > 0 /\ lastGap' > 0) => lastGap <= lastGap']_vars

C17_SignalOnlyForItsPass ==
    completedFile => pc = "await"

\* C18: the two signal files exist only during one handoff cycle: when a
\* cancelled task's process has ended, neither file is left.
C18_FilesRemovedOnCancel ==
    (state = "Cancelled" /\ pc = "none") => (~waitingFile /\ ~completedFile)

\* The place of a state on the chain Idle, Launching, ..., and the terminal
\* states after all of them.
StateOrder ==
    <<"Idle", "Launching", "Connecting", "FillingForm", "AwaitingVerification",
      "Resuming", "Uploading", "AwaitingFinalConfirmation">>

Rank(s) ==
    IF s \in Terminal THEN Len(StateOrder) + 1
    ELSE CHOOSE k \in 1..Len(StateOrder) : StateOrder[k] = s

C21_StatusCallReturns ==
    \A c \in Callers :
        (calls[c].method = "getAutomationStatus" /\ calls[c].pc = "done")
            => calls[c].outcome = "returned"

\* A getAutomationStatus call under Tauri whose invoke failed has ended.
C21_Witness ==
    \E c \in Callers :
        /\ calls[c].method = "getAutomationStatus"
        /\ calls[c].pc = "done"
        /\ calls[c].invoke = "failed"

\* C22: stopAutomation always succeeds: no call of it ends by throwing.
C22_StopCallSucceeds ==
    \A c \in Callers :
        (calls[c].method = "stopAutomation" /\ calls[c].pc = "done")
            => calls[c].outcome = "returned"

C24_CommandUsesAppProfile ==
    clipboard # NoCommand =>
        /\ clipboard.port = DebugPort
        /\ clipboard.userDataDir \in AppOwnedProfileDirs
        /\ clipboard.userDataDir \notin DefaultProfileDirs

\* C25: once the monitor has given up at the cap, no connection check is
\* issued until the operator acts in the panel.
C25_StaysStoppedAfterGiveUp ==
    [][(gaveUpAt >= 0 /\ operatorActions = gaveUpAt
           /\ operatorActions' = operatorActions)
          => pendingChecks' <= pendingChecks]_vars

\* C26: a check of the monitor's timer chain fires only while a monitoring
\* session that was started has not been stopped.
C26_NoCheckAfterStop ==
    [][(refKind = "tick" /\ refDue = 0 /\ firstShownDue # 0
           /\ operatorActions' = operatorActions
           /\ pendingChecks' > pendingChecks)
          => isMonitoringConnection]_vars

\* C27: connectionCheckCount stays within the cap of 15.
C27_CountWithinCap == connectionCheckCount <= MaxAttempts

\* C28: the dashboard sends startAutomation only when no task started
\* earlier is still non-terminal.
C28_NoSecondStart ==
    [][(~pendingStart /\ pendingStart') => ~Active(state)]_vars

C30_DetectOnceBeforeRead ==
    /\ detectRuns <= 1
    /\ \A c \in Callers :
          (calls[c].method = "checkBrowserConnectionStatus"
             /\ calls[c].pc \in {"invoke", "done"})
              => /\ detectRuns = 1
                 /\ calls[c].sawInitialized
                 /\ calls[c].sawTauri = isTauri

\* Two callers were in ensureInitialized together under Tauri: one has read
\* isTauri after the detection, the other still awaits the same promise.
C30_Witness ==
    \E c, d \in Callers :
        /\ c # d
        /\ isTauri
        /\ calls[c].method = "checkBrowserConnectionStatus"
        /\ calls[c].pc = "invoke"
        /\ calls[c].sawTauri
        /\ calls[d].method = "checkBrowserConnectionStatus"
        /\ calls[d].pc = "awaitInit"
        /\ detectRuns = 1

====
